---- MODULE Spec2Model ----
(***************************************************************************)
(* Model of sklearn_questions.py: the KNearestNeighbors classifier         *)
(* (fit / predict / score) and the MonthlySplit cross-validator            *)
(* (get_n_splits / split).                                                 *)
(*                                                                         *)
(* Two specifications share the variables: SpecKNN drives one classifier   *)
(* instance, SpecSplit drives one splitter instance over one table.        *)
(***************************************************************************)
EXTENDS Integers, Sequences, FiniteSets, TLC

VARIABLES
    knn,          \* the classifier instance: attribute name -> value (its __dict__)
    ret,          \* the last classifier call: operation, arguments, outcome
    time_col,     \* MonthlySplit.time_col
    X,            \* the table handed to the splitter: [index, columns]
    n_splits_ret, \* outcome of the last get_n_splits(X) call
    gen,          \* the generator object returned by split(X), with its locals
    yielded       \* the (train, test) pairs the generator has handed out so far

vars == <<knn, ret, time_col, X, n_splits_ret, gen, yielded>>
knnVars == <<knn, ret>>
splitVars == <<time_col, X, n_splits_ret, gen, yielded>>

(***************************************************************************)
(* Bounds of the model.                                                    *)
(***************************************************************************)
MaxTrain == 2
MaxQuery == 2
NFeatures == 1
MaxK == 2
MaxRows == 5

(***************************************************************************)
(* Generic helpers.                                                        *)
(***************************************************************************)
SeqsUpTo(S, lo, hi) == UNION {[1..n -> S] : n \in lo..hi}

Range(s) == {s[i] : i \in DOMAIN s}

Min2(a, b) == IF a <= b THEN a ELSE b

Max2(a, b) == IF a >= b THEN a ELSE b

Perms(n) == {p \in [1..n -> 1..n] : \A i, j \in 1..n : i # j => p[i] # p[j]}

RECURSIVE SumOver(_, _)
SumOver(f, S) ==
    IF S = {} THEN 0
    ELSE LET e == CHOOSE e \in S : TRUE IN f[e] + SumOver(f, S \ {e})

(***************************************************************************)
(* Part 1: KNearestNeighbors                                               *)
(***************************************************************************)

\* Matrix entries and labels: finite numbers, or NaN.
Num(n) == [kind |-> "num", v |-> n]
NaN == [kind |-> "nan", v |-> 0]
FeatureVals == {Num(0), Num(1), NaN}
LabelVals == {Num(0), Num(1), NaN}
Rows == [1..NFeatures -> FeatureVals]
IsFinite(e) == e.kind = "num"

TrainXs == SeqsUpTo(Rows, 0, MaxTrain)
TrainYs == SeqsUpTo(LabelVals, 0, MaxTrain)
QueryXs == SeqsUpTo(Rows, 0, MaxQuery)
QueryYs == SeqsUpTo(LabelVals, 0, MaxQuery)

\* sklearn.utils.validation.check_array(X): a 2-D numeric matrix with at least
\* one row and no NaN; anything else raises ValueError.
check_array(Xa) ==
    /\ Len(Xa) >= 1
    /\ \A n \in 1..Len(Xa) : \A f \in 1..NFeatures : IsFinite(Xa[n][f])

\* sklearn.utils.validation.check_X_y(X, y): check_array(X), y a finite vector,
\* and as many labels as rows.
check_X_y(Xa, ya) ==
    /\ check_array(Xa)
    /\ \A n \in 1..Len(ya) : IsFinite(ya[n])
    /\ Len(Xa) = Len(ya)

\* sklearn.utils.multiclass.check_classification_targets(y): NaN is rejected.
check_classification_targets(ya) == \A n \in 1..Len(ya) : IsFinite(ya[n])

\* hasattr(self, a)
hasattr(obj, a) == a \in DOMAIN obj

\* sklearn.utils.validation.check_is_fitted(self, attributes): every listed
\* attribute must exist on the instance, otherwise NotFittedError.
check_is_fitted(obj, attributes) == \A a \in attributes : hasattr(obj, a)

\* setattr on the instance
setattrs(obj, new) ==
    [a \in DOMAIN obj \cup DOMAIN new |-> IF a \in DOMAIN new THEN new[a] ELSE obj[a]]

\* sklearn.metrics.pairwise.pairwise_distances(X, Y), Euclidean.  The squared
\* distance is kept: the square root is strictly increasing and the result is
\* only ever ordered by argsort.
Dist2(a, b) ==
    SumOver([f \in 1..NFeatures |-> (a[f].v - b[f].v) * (a[f].v - b[f].v)], 1..NFeatures)

pairwise_distances(Xa, Ya) ==
    [n \in 1..Len(Xa) |-> [j \in 1..Len(Ya) |-> Dist2(Xa[n], Ya[j])]]

\* np.argsort(d): the orders a (not necessarily stable) sort may return.
argsort(d) ==
    {p \in Perms(Len(d)) : \A i, j \in 1..Len(d) : i < j => d[p[i]] <= d[p[j]]}

\* s[:k]
Take(s, k) == SubSeq(s, 1, Min2(k, Len(s)))

Count(s, e) == Cardinality({i \in DOMAIN s : s[i] = e})

\* Counter(s).most_common(1)[0][0]: the most frequent element, the first one
\* encountered among equally frequent ones.
most_common(s) ==
    LET best == CHOOSE i \in DOMAIN s :
                    /\ \A j \in DOMAIN s : Count(s, s[j]) <= Count(s, s[i])
                    /\ \A j \in DOMAIN s : j < i => Count(s, s[j]) < Count(s, s[i])
    IN s[best]

\* Lines 108-121 of predict: one label per query row.
knn_vote(obj, Xa) ==
    LET distances == pairwise_distances(Xa, obj["X_train_"])
        labelsOf(p) == [i \in 1..Len(Take(p, obj["n_neighbors"])) |-> obj["y_train"][p[i]]]
    IN {yp \in [1..Len(Xa) -> LabelVals] :
            \A n \in 1..Len(Xa) :
                \E p \in argsort(distances[n]) : yp[n] = most_common(labelsOf(p))}

Raise(e) == [status |-> e, value |-> <<>>]
Return(v) == [status |-> "ok", value |-> v]

\* KNearestNeighbors.predict: the set of outcomes of predict(X).
predict(obj, Xa) ==
    IF ~check_is_fitted(obj, {"X_train_", "y_test_"}) THEN {Raise("NotFittedError")}
    ELSE IF ~check_array(Xa) THEN {Raise("ValueError")}
    ELSE IF ~hasattr(obj, "y_train") THEN {Raise("AttributeError")}
    ELSE {Return(yp) : yp \in knn_vote(obj, Xa)}

\* sklearn.metrics.accuracy_score(y, y_pred): the fraction of equal entries,
\* kept as numerator and denominator.
accuracy_score(ya, yp) ==
    IF Len(ya) # Len(yp) THEN Raise("ValueError")
    ELSE Return([num |-> Cardinality({i \in 1..Len(ya) : ya[i] = yp[i]}),
                 den |-> Len(ya)])

\* KNearestNeighbors.score: the set of outcomes of score(X, y).
score(obj, Xa, ya) ==
    IF ~check_array(Xa) THEN {Raise("ValueError")}
    ELSE IF ~check_classification_targets(ya) THEN {Raise("ValueError")}
    ELSE {IF p.status = "ok" THEN accuracy_score(ya, p.value) ELSE p :
            p \in predict(obj, Xa)}

Call(op, Xa, ya, out) ==
    [op |-> op, X |-> Xa, y |-> ya, status |-> out.status, value |-> out.value]

(***************************************************************************)
(* Part 2: MonthlySplit                                                    *)
(***************************************************************************)

\* The values a table's index or column may hold.
Timestamp(y, m, d) == [kind |-> "Timestamp", year |-> y, month |-> m, day |-> d]
IntVal(n) == [kind |-> "int", v |-> n]
StrVal(s) == [kind |-> "str", s |-> s]

\* November 2020 to March 2021 (module docstring, lines 29-32).
Dates ==
    {Timestamp(2020, 11, 20), Timestamp(2020, 12, 5), Timestamp(2021, 1, 1),
     Timestamp(2021, 2, 28), Timestamp(2021, 3, 10)}
IntVals == {IntVal(0), IntVal(7)}
StrVals == {StrVal("2020-12-05"), StrVal("2021-02-28"), StrVal("abc")}

\* A column (or an index) has one dtype: datetime64, int64, or object (strings).
TimeSeqs ==
    SeqsUpTo(Dates, 1, MaxRows) \cup SeqsUpTo(IntVals, 1, MaxRows)
        \cup SeqsUpTo(StrVals, 1, MaxRows)

\* Row identifiers of a table whose time values sit in a column: distinct
\* labels that are not the row positions.
RowLabels(n) == [p \in 1..n |-> IntVal(100 + p)]

\* Tables with the time values in column "date".
TablesTimeColumn ==
    {[index |-> RowLabels(Len(t)), columns |-> [c \in {"date"} |-> t]] : t \in TimeSeqs}

\* Tables with the time values in the index (the row identifiers).
TablesTimeIndex ==
    {[index |-> t, columns |-> [c \in {"val"} |-> [p \in 1..Len(t) |-> IntVal(p)]]] :
        t \in TimeSeqs}

\* What pandas parses out of a date-like string.
DateStrings ==
    [s \in {"2020-12-05", "2021-02-28"} |->
        IF s = "2020-12-05" THEN Timestamp(2020, 12, 5) ELSE Timestamp(2021, 2, 28)]

\* pd.to_datetime on one value: a Timestamp is kept, an integer counts
\* nanoseconds from the epoch (1970-01-01), a string is parsed.
Convertible(v) == v.kind = "str" => v.s \in DOMAIN DateStrings

to_datetime1(v) ==
    IF v.kind = "Timestamp" THEN v
    ELSE IF v.kind = "int" THEN Timestamp(1970, 1, 1)
    ELSE DateStrings[v.s]

\* pd.to_datetime(values): ValueError when a string is no date.  The result of
\* converting an Index is a DatetimeIndex, of converting a column a Series
\* that keeps the table's index.
to_datetime(values, type, index) ==
    IF \E p \in DOMAIN values : ~Convertible(values[p]) THEN Raise("ValueError")
    ELSE Return([type |-> type,
                 values |-> [p \in DOMAIN values |-> to_datetime1(values[p])],
                 index |-> index])

\* Lines 168-173 of get_n_splits.
time_data_get_n_splits(tc, Xt) ==
    IF tc = "index" THEN to_datetime(Xt.index, "DatetimeIndex", Xt.index)
    ELSE IF tc \notin DOMAIN Xt.columns THEN Raise("ValueError")
    ELSE to_datetime(Xt.columns[tc], "Series", Xt.index)

\* Faulty variant: an absent column silently falls back to the index.
time_data_split_fallback(tc, Xt) ==
    IF tc = "index" \/ tc \notin DOMAIN Xt.columns
    THEN to_datetime(Xt.index, "DatetimeIndex", Xt.index)
    ELSE to_datetime(Xt.columns[tc], "Series", Xt.index)

\* Lines 190-195 of split.
time_data_split(tc, Xt) ==
    IF tc = "index" THEN to_datetime(Xt.index, "DatetimeIndex", Xt.index)
    ELSE IF tc \notin DOMAIN Xt.columns THEN Raise("ValueError")
    ELSE to_datetime(Xt.columns[tc], "Series", Xt.index)

\* Timestamp comparison.
TsLess(a, b) ==
    \/ a.year < b.year
    \/ a.year = b.year /\ a.month < b.month
    \/ a.year = b.year /\ a.month = b.month /\ a.day < b.day

\* Series.argsort() / DatetimeIndex.argsort(): the positions in ascending
\* order of their values; equal values keep their input order.
RECURSIVE argsort_from(_, _)
argsort_from(values, S) ==
    IF S = {} THEN <<>>
    ELSE LET p == CHOOSE p \in S :
                    \A q \in S \ {p} :
                        \/ TsLess(values[p], values[q])
                        \/ ~TsLess(values[q], values[p]) /\ p < q
         IN <<p>> \o argsort_from(values, S \ {p})

series_argsort(values) == argsort_from(values, DOMAIN values)

\* s.iloc[positions] / s.sort_values()
iloc(s, positions) == [k \in 1..Len(positions) |-> s[positions[k]]]

sort_values(values) == iloc(values, series_argsort(values))

ts_min(values) == CHOOSE t \in Range(values) : \A u \in Range(values) : ~TsLess(u, t)

ts_max(values) == CHOOSE t \in Range(values) : \A u \in Range(values) : ~TsLess(t, u)

\* Faulty variant: the year difference is forgotten.
total_months_noyear(first_date, last_date) == last_date.month - first_date.month

\* Lines 181-183 of get_n_splits.

total_months(first_date, last_date) ==
    LET diff_month == last_date.month - first_date.month
        diff_year == last_date.year - first_date.year
    IN diff_year * 12 + diff_month

\* MonthlySplit.get_n_splits
get_n_splits(tc, Xt) ==
    LET td == time_data_get_n_splits(tc, Xt)
    IN IF td.status # "ok" THEN td
       ELSE LET time_data == sort_values(td.value.values)
                first_date == ts_min(time_data)
                last_date == ts_max(time_data)
            IN Return(Max2(total_months(first_date, last_date), 0))

\* .dt.to_period('M')
to_period_M(t) == [year |-> t.year, month |-> t.month]

\* Faulty variant: the months are not deduplicated.
no_unique(s) == s

\* .unique(): the distinct values in order of first appearance.

RECURSIVE unique(_)
unique(s) ==
    IF s = <<>> THEN <<>>
    ELSE LET front == unique(SubSeq(s, 1, Len(s) - 1))
             last == s[Len(s)]
         IN IF last \in Range(front) THEN front ELSE Append(front, last)

\* index[mask]: the entries of index at the positions where mask is true.
bool_index(index, mask) ==
    LET pos == SelectSeq([p \in 1..Len(index) |-> p], LAMBDA p : mask[p])
    IN [k \in 1..Len(pos) |-> index[pos[k]]]

\* The generator object: its position and its local variables.
GenObj(pc, err, i, time_sorted, X_sorted_index, unique_months) ==
    [pc |-> pc, err |-> err, i |-> i, time_sorted |-> time_sorted,
     X_sorted_index |-> X_sorted_index, unique_months |-> unique_months]

\* Lines 190-203 of split: everything before the loop.
split_prepare(tc, Xt) ==
    LET td == time_data_split(tc, Xt)
    IN IF td.status # "ok" THEN GenObj("raised", td.status, 0, <<>>, <<>>, <<>>)
       ELSE LET time_data == td.value
                sorted_indices == series_argsort(time_data.values)
                X_sorted_index == iloc(Xt.index, sorted_indices)
            IN IF time_data.type # "Series"  \* a DatetimeIndex has no .iloc
               THEN GenObj("raised", "AttributeError", 0, <<>>, <<>>, <<>>)
               ELSE LET time_sorted == iloc(time_data.values, sorted_indices)
                        periods == [p \in DOMAIN time_sorted |-> to_period_M(time_sorted[p])]
                    IN GenObj("running", "", 0, time_sorted, X_sorted_index,
                              unique(periods))

\* Faulty variant: the test mask selects the training month.
test_mask_same(g, i) ==
    [p \in DOMAIN g.time_sorted |-> to_period_M(g.time_sorted[p]) = g.unique_months[i + 1]]

\* Lines 206-212 of split: the pair of iteration i (0-based in the code).
train_mask(g, i) ==
    [p \in DOMAIN g.time_sorted |-> to_period_M(g.time_sorted[p]) = g.unique_months[i + 1]]

test_mask(g, i) ==
    [p \in DOMAIN g.time_sorted |-> to_period_M(g.time_sorted[p]) = g.unique_months[i + 2]]

split_pair(g, i) ==
    [train |-> bool_index(g.X_sorted_index, train_mask(g, i)),
     test |-> bool_index(g.X_sorted_index, test_mask(g, i))]

\* Line 205: run the loop from iteration i to its next yield or to its end.
split_loop(g, i) ==
    IF i < Len(g.unique_months) - 1
    THEN /\ gen' = [g EXCEPT !.pc = "suspended", !.i = i]
         /\ yielded' = Append(yielded, split_pair(g, i))
    ELSE /\ gen' = [g EXCEPT !.pc = "finished", !.i = i]
         /\ yielded' = yielded

NoGen == GenObj("none", "", 0, <<>>, <<>>, <<>>)

\* KNearestNeighbors.__init__
InitKNN ==
    /\ \E k \in 1..MaxK : knn = [a \in {"n_neighbors"} |-> k]
    /\ ret = Call("init", <<>>, <<>>, Return(<<>>))
    /\ time_col = "index"
    /\ X = [index |-> <<>>, columns |-> <<>>]
    /\ n_splits_ret = [status |-> "none", value |-> 0]
    /\ gen = NoGen
    /\ yielded = <<>>

\* KNearestNeighbors.fit
Fit ==
    /\ \E Xa \in TrainXs, ya \in TrainYs :
        IF check_X_y(Xa, ya)
        THEN /\ knn' = setattrs(knn, [a \in {"X_train_", "y_train_"} |->
                                        IF a = "X_train_" THEN Xa ELSE ya])
             /\ ret' = Call("fit", Xa, ya, Return(<<>>))
        ELSE /\ knn' = knn
             /\ ret' = Call("fit", Xa, ya, Raise("ValueError"))
    /\ UNCHANGED splitVars

\* a call of predict(X)
Predict ==
    /\ \E Xa \in QueryXs :
        \E out \in predict(knn, Xa) :
            /\ ret' = Call("predict", Xa, <<>>, out)
            /\ knn' = knn
    /\ UNCHANGED splitVars

\* a call of score(X, y)
Score ==
    /\ \E Xa \in QueryXs, ya \in QueryYs :
        \E out \in score(knn, Xa, ya) :
            /\ ret' = Call("score", Xa, ya, out)
            /\ knn' = knn
    /\ UNCHANGED splitVars

NextKNN == Fit \/ Predict \/ Score

SpecKNN == InitKNN /\ [][NextKNN]_vars

\* MonthlySplit.__init__ and the table the caller holds.
InitSplit ==
    /\ knn = [a \in {"n_neighbors"} |-> 1]
    /\ ret = Call("init", <<>>, <<>>, Return(<<>>))
    /\ \/ time_col = "index" /\ X \in TablesTimeIndex
       \/ time_col \in {"date", "time"} /\ X \in TablesTimeColumn
    /\ n_splits_ret = [status |-> "none", value |-> 0]
    /\ gen = NoGen
    /\ yielded = <<>>

\* a call of get_n_splits(X)
GetNSplits ==
    /\ n_splits_ret' = get_n_splits(time_col, X)
    /\ UNCHANGED <<time_col, X, gen, yielded>>
    /\ UNCHANGED knnVars

\* a call of split(X): a generator object is made, none of its body runs yet.
Split ==
    /\ gen.pc \in {"none", "finished", "raised"}
    /\ gen' = GenObj("created", "", 0, <<>>, <<>>, <<>>)
    /\ yielded' = <<>>
    /\ UNCHANGED <<time_col, X, n_splits_ret>>
    /\ UNCHANGED knnVars

\* the first next() on the generator: lines 190-203, then the loop.
GenStart ==
    /\ gen.pc = "created"
    /\ LET g == split_prepare(time_col, X)
       IN IF g.pc = "raised"
          THEN gen' = g /\ yielded' = yielded
          ELSE split_loop(g, 0)
    /\ UNCHANGED <<time_col, X, n_splits_ret>>
    /\ UNCHANGED knnVars

\* a later next(): resume after the yield, next iteration of the loop.
GenResume ==
    /\ gen.pc = "suspended"
    /\ split_loop(gen, gen.i + 1)
    /\ UNCHANGED <<time_col, X, n_splits_ret>>
    /\ UNCHANGED knnVars

NextSplit == GetNSplits \/ Split \/ GenStart \/ GenResume

SpecSplit == InitSplit /\ [][NextSplit]_vars

(***************************************************************************)
(* Properties of KNearestNeighbors, checked under SpecKNN.                 *)
(***************************************************************************)

\* fit has succeeded on the instance (lines 88-89 have run).
Fitted == hasattr(knn, "X_train_")

SqDist(a, b) == SumOver([f \in DOMAIN a |-> (a[f].v - b[f].v) * (a[f].v - b[f].v)], DOMAIN a)

\* C1: with k = 1 on a fitted classifier, predict on a matrix holding a row
\* identical to a training row returns (it does not fail), and the prediction
\* for that row is the label of an identical training row.
C1_IdenticalPointLabel ==
    (/\ ret.op = "predict"
     /\ Fitted
     /\ knn["n_neighbors"] = 1
     /\ check_array(ret.X)
     /\ \E n \in DOMAIN ret.X : ret.X[n] \in Range(knn["X_train_"]))
    => /\ ret.status = "ok"
       /\ Len(ret.value) = Len(ret.X)
       /\ \A n \in DOMAIN ret.X :
            ret.X[n] \in Range(knn["X_train_"])
            => \E j \in DOMAIN knn["X_train_"] :
                    /\ knn["X_train_"][j] = ret.X[n]
                    /\ ret.value[n] = knn["y_train_"][j]

\* C2: on an instance on which fit never succeeded, every predict call and
\* every score call ends in a NotFittedError, whatever its arguments.
C2_NotFittedBeforeFit ==
    (~Fitted /\ ret.op \in {"predict", "score"}) => ret.status = "NotFittedError"

\* C3: on a fitted classifier and a valid (X, y), score returns the fraction
\* of rows on which predict(X) equals y, a value between 0 and 1.
C3_ScoreIsAccuracy ==
    (ret.op = "score" /\ Fitted /\ check_X_y(ret.X, ret.y))
    => /\ ret.status = "ok"
       /\ ret.value.den = Len(ret.X)
       /\ 0 <= ret.value.num /\ ret.value.num <= ret.value.den
       /\ \E p \in predict(knn, ret.X) :
            /\ p.status = "ok"
            /\ ret.value.num =
                    Cardinality({i \in DOMAIN ret.X : p.value[i] = ret.y[i]})

\* C9: on a fitted classifier and a valid query matrix, predict returns one
\* label per query row, each a most frequent label among k training rows that
\* are nearest to the query row.
C9_MajorityOfKNearest ==
    (ret.op = "predict" /\ Fitted /\ check_array(ret.X))
    => /\ ret.status = "ok"
       /\ Len(ret.value) = Len(ret.X)
       /\ \A n \in DOMAIN ret.X :
            \E S \in SUBSET DOMAIN knn["X_train_"] :
                LET d(j) == SqDist(ret.X[n], knn["X_train_"][j])
                    votes(l) == Cardinality({j \in S : knn["y_train_"][j] = l})
                IN /\ Cardinality(S) = Min2(knn["n_neighbors"], Len(knn["X_train_"]))
                   /\ \A a \in S : \A b \in DOMAIN knn["X_train_"] \ S : d(a) <= d(b)
                   /\ votes(ret.value[n]) >= 1
                   /\ \A l \in LabelVals : votes(l) <= votes(ret.value[n])

(***************************************************************************)
(* Properties of MonthlySplit, checked under SpecSplit.                    *)
(***************************************************************************)

\* The designated time source exists in the table.
SourcePresent == time_col = "index" \/ time_col \in DOMAIN X.columns

\* The values of the designated time source, one per row.
Source == IF time_col = "index" THEN X.index ELSE X.columns[time_col]

\* Every row's time value is a timestamp.
ValidTimes == SourcePresent /\ \A p \in DOMAIN Source : Source[p].kind = "Timestamp"

\* A value that is neither a timestamp nor a string that reads as a date.
NotATimestamp(v) == v.kind = "int" \/ (v.kind = "str" /\ v.s \notin DOMAIN DateStrings)

MonthOrd(t) == t.year * 12 + t.month

MonthsPresent == {MonthOrd(Source[p]) : p \in DOMAIN Source}

MinOrd == CHOOSE m \in MonthsPresent : \A q \in MonthsPresent : m <= q

MaxOrd == CHOOSE m \in MonthsPresent : \A q \in MonthsPresent : q <= m

\* The i-th distinct month present, in ascending order.
NthMonth(i) == CHOOSE m \in MonthsPresent : Cardinality({q \in MonthsPresent : q < m}) = i - 1

\* The identifiers of the rows of month m.
RowsOfMonth(m) == {X.index[p] : p \in {q \in DOMAIN Source : MonthOrd(Source[q]) = m}}

GenEnded == gen.pc \in {"finished", "raised"}

\* C4: for a table with valid timestamps, in the named column or in the row
\* identifier, an exhausted split has yielded (distinct months - 1) pairs, the
\* i-th with the rows of the i-th month as train and of the (i+1)-th as test.
C4_SplitPairsAnySource ==
    (ValidTimes /\ GenEnded)
    => /\ gen.pc = "finished"
       /\ Len(yielded) = Cardinality(MonthsPresent) - 1
       /\ \A i \in DOMAIN yielded :
            /\ Range(yielded[i].train) = RowsOfMonth(NthMonth(i))
            /\ Range(yielded[i].test) = RowsOfMonth(NthMonth(i + 1))

\* C5: on valid timestamps get_n_splits returns max(0, month ordinal of the
\* latest - month ordinal of the earliest): never negative, 0 for a single
\* month, 4 for five consecutive months.
C5_GetNSplitsMonthDifference ==
    (ValidTimes /\ n_splits_ret.status # "none")
    => /\ n_splits_ret.status = "ok"
       /\ n_splits_ret.value = Max2(0, MaxOrd - MinOrd)
       /\ n_splits_ret.value >= 0
       /\ Cardinality(MonthsPresent) = 1 => n_splits_ret.value = 0
       /\ (Cardinality(MonthsPresent) = 5 /\ MaxOrd - MinOrd = 4) => n_splits_ret.value = 4

C5_Witness ==
    /\ ValidTimes
    /\ n_splits_ret.status = "ok"
    /\ Cardinality(MonthsPresent) = 5
    /\ MinOrd = MonthOrd(Timestamp(2020, 11, 20))
    /\ n_splits_ret.value = 4

\* C6: when time_col names an absent column, get_n_splits and split end in a
\* ValueError, and split yields no pair before it fails.
C6_MissingColumnRaises ==
    ~SourcePresent
    => /\ n_splits_ret.status \in {"none", "ValueError"}
       /\ gen.pc \in {"none", "created", "raised"}
       /\ gen.pc = "raised" => gen.err = "ValueError"
       /\ yielded = <<>>

C6_Witness ==
    /\ ~SourcePresent
    /\ n_splits_ret.status = "ValueError"
    /\ gen.pc = "raised"
    /\ gen.err = "ValueError"

\* C7: when the designated time source holds values that are not timestamps,
\* get_n_splits returns no count and split yields no pair: both fail.
C7_NonTimestampsRaise ==
    (SourcePresent /\ \E p \in DOMAIN Source : NotATimestamp(Source[p]))
    => /\ n_splits_ret.status # "ok"
       /\ gen.pc \notin {"suspended", "finished"}
       /\ yielded = <<>>

\* C8: in the sequence an exhausted split has yielded, train and test of a
\* pair are disjoint and each is the rows of exactly one month; a row of an
\* inner month is train in exactly one pair and test in exactly the pair
\* before it, a row of the first month is train once and never test, a row of
\* the last month is test once and never train.
C8_PairsPartitionMonths ==
    (ValidTimes /\ gen.pc = "finished")
    => /\ \A i \in DOMAIN yielded :
            LET tr == Range(yielded[i].train)
                te == Range(yielded[i].test)
            IN /\ tr \cap te = {}
               /\ Cardinality(tr) = Len(yielded[i].train)
               /\ Cardinality(te) = Len(yielded[i].test)
               /\ \E m \in MonthsPresent : tr = RowsOfMonth(m)
               /\ \E m \in MonthsPresent : te = RowsOfMonth(m)
       /\ \A p \in DOMAIN Source :
            LET m == MonthOrd(Source[p])
                TrainAt == {i \in DOMAIN yielded : X.index[p] \in Range(yielded[i].train)}
                TestAt == {i \in DOMAIN yielded : X.index[p] \in Range(yielded[i].test)}
            IN /\ Cardinality(TrainAt) = IF m = MaxOrd THEN 0 ELSE 1
               /\ Cardinality(TestAt) = IF m = MinOrd THEN 0 ELSE 1
               /\ (m # MinOrd /\ m # MaxOrd) => \A i \in TrainAt : TestAt = {i - 1}

C8_Witness ==
    /\ ValidTimes
    /\ gen.pc = "finished"
    /\ Len(yielded) >= 3
    /\ \E i \in DOMAIN yielded : i > 1 /\ Len(yielded[i].train) >= 2

====
